---------------------------- MODULE Spec2Model ----------------------------
(***************************************************************************)
(* Model of the HGW bonus simulator (src/main.py): the membership catalog, *)
(* the downline generator, the team and elite bonus calculators and the    *)
(* construction of the affiliation graph.                                  *)
(*                                                                         *)
(* Units.  Rates are held in hundredths (0.05 is 5, the elite rate 0.04 is *)
(* 4) and BV figures are whole points, so a bonus amount is held in        *)
(* hundredths of a point: Master on 2500 BV is 2500 * 10 = 25000, that is  *)
(* 250.00.  The products and sums are those of the code, taken exactly;    *)
(* the rounding of binary floating point is not part of the model.         *)
(*                                                                         *)
(* A call of a function of the program ends in a record [exc, ret]: exc is *)
(* "none" and ret the returned value, or exc is the name of the Python     *)
(* exception that left the function and ret is NoResult.                   *)
(***************************************************************************)
EXTENDS Integers, Sequences, FiniteSets, TLC

VARIABLES
    MEMBERSHIP,   \* the module-level catalog dict
    op,           \* the function of the program that is called
    args,         \* the arguments of the call
    pc,           \* "called" before the function has run, "left" after;
                  \* "session" in a browser session of the application
    exc,          \* the exception that left it, or "none"
    ret,          \* the value it returned, or NoResult
    session_state,        \* st.session_state: a dict from keys to values
    membership_selectbox, \* the value held by the sidebar's selectbox
    bv_default_input,     \* the value held by the sidebar's BV input
    last_run,             \* what the last run of main computed
    runs                  \* the runs of main made in the session

callvars == <<op, args, exc, ret>>

uivars == <<session_state, membership_selectbox, bv_default_input, last_run, runs>>

vars == <<MEMBERSHIP, pc, callvars, uivars>>

-----------------------------------------------------------------------------
(* Bounds of the inputs.                                                   *)

MaxGenCount == 7      \* longest generated or two-valued downline
MaxCustomLen == 3     \* longest downline drawn from all of GenRecords
MaxCount == 3         \* largest affiliate count of a drawn record

-----------------------------------------------------------------------------
(* Outcomes of a call.                                                     *)

NoResult == "no_result"

Return(v) == [exc |-> "none", ret |-> v]

Raise(e) == [exc |-> e, ret |-> NoResult]

-----------------------------------------------------------------------------
(* The catalog and the tables keyed by membership name.                    *)

\* The catalog with Senior given Master's depth.
MEMBERSHIP_dict_senior_depth ==
    [m \in {"Pre-Junior", "Junior", "Senior", "Master"} |->
        CASE m = "Pre-Junior" -> [team_pct |-> 5,  elite_depth |-> 0, color |-> "#90CAF9"]
          [] m = "Junior"     -> [team_pct |-> 7,  elite_depth |-> 0, color |-> "#81C784"]
          [] m = "Senior"     -> [team_pct |-> 8,  elite_depth |-> 6, color |-> "#FFB74D"]
          [] m = "Master"     -> [team_pct |-> 10, elite_depth |-> 6, color |-> "#F06292"]]

MEMBERSHIP_dict ==
    [m \in {"Pre-Junior", "Junior", "Senior", "Master"} |->
        CASE m = "Pre-Junior" -> [team_pct |-> 5,  elite_depth |-> 0, color |-> "#90CAF9"]
          [] m = "Junior"     -> [team_pct |-> 7,  elite_depth |-> 0, color |-> "#81C784"]
          [] m = "Senior"     -> [team_pct |-> 8,  elite_depth |-> 3, color |-> "#FFB74D"]
          [] m = "Master"     -> [team_pct |-> 10, elite_depth |-> 6, color |-> "#F06292"]]

example_gen_counts ==
    [m \in {"Pre-Junior", "Junior", "Senior", "Master"} |->
        CASE m = "Pre-Junior" -> 0
          [] m = "Junior"     -> 0
          [] m = "Senior"     -> 3
          [] m = "Master"     -> 6]

membership_table ==
    [m \in {"Pre-Junior", "Junior", "Senior", "Master"} |->
        CASE m = "Pre-Junior" -> 0
          [] m = "Junior"     -> 0
          [] m = "Senior"     -> 3
          [] m = "Master"     -> 6]

example_values ==
    [m \in {"Pre-Junior", "Junior", "Senior", "Master"} |->
        CASE m = "Pre-Junior" -> [private |-> 500,  public |-> 300]
          [] m = "Junior"     -> [private |-> 800,  public |-> 600]
          [] m = "Senior"     -> [private |-> 1500, public |-> 1200]
          [] m = "Master"     -> [private |-> 3000, public |-> 2500]]

\* The membership names the Optimize button branches on, each with the
\* number of generations its branch generates.
optimize_branches == [Master |-> 6, Senior |-> 3]

first_gen_default == 5

other_gen_default == 3

rate == 4

-----------------------------------------------------------------------------
(* Python built-ins the functions use.                                     *)

\* min(a, b)
min(a, b) == IF b < a THEN b ELSE a

\* max(a, b)
max(a, b) == IF b > a THEN b ELSE a

\* sum(xs): the left fold from 0
RECURSIVE sum_from(_, _, _)
sum_from(xs, i, acc) ==
    IF i > Len(xs) THEN acc ELSE sum_from(xs, i + 1, acc + xs[i])

sum(xs) == sum_from(xs, 1, 0)

\* xs[:k]: the first k elements, or all but the last -k when k < 0
slice_to(xs, k) ==
    LET stop == IF k >= 0 THEN min(k, Len(xs))
                ELSE IF Len(xs) + k > 0 THEN Len(xs) + k ELSE 0
    IN  SubSeq(xs, 1, stop)

\* a % b for b # 0: the result has the sign of b
py_mod(a, b) == IF b > 0 THEN a % b ELSE -((-a) % (-b))

-----------------------------------------------------------------------------
(* get_downline_counts                                                     *)

RECURSIVE get_downline_counts_loop(_, _, _, _, _, _)
get_downline_counts_loop(i, counts, gen_count, bv_per_person, first_gen, other_gen) ==
    IF i >= gen_count THEN counts
    ELSE LET count == IF i = 0 THEN first_gen ELSE other_gen
         IN  get_downline_counts_loop(i + 1,
                 Append(counts, <<count, bv_per_person>>),
                 gen_count, bv_per_person, first_gen, other_gen)

\* The loop started at 1: range(1, gen_count).
get_downline_counts_from_one(gen_count, bv_per_person, first_gen, other_gen) ==
    get_downline_counts_loop(1, <<>>, gen_count, bv_per_person, first_gen, other_gen)

get_downline_counts(gen_count, bv_per_person, first_gen, other_gen) ==
    get_downline_counts_loop(0, <<>>, gen_count, bv_per_person, first_gen, other_gen)

-----------------------------------------------------------------------------
(* calculate_team_bonus: min of the two lines, then the catalog lookup,    *)
(* which raises KeyError on a name the dict does not hold.                 *)

\* The daily ceilings the help text of simulate_team_bonus quotes
\* (50, 120, 360 and 720), in hundredths.
daily_cap ==
    [m \in {"Pre-Junior", "Junior", "Senior", "Master"} |->
        CASE m = "Pre-Junior" -> 5000
          [] m = "Junior"     -> 12000
          [] m = "Senior"     -> 36000
          [] m = "Master"     -> 72000]

\* The amount held to the daily ceiling.
calculate_team_bonus_capped(bv_private, bv_public, membership_level) ==
    LET bv_base == min(bv_private, bv_public)
    IN  IF membership_level \notin DOMAIN MEMBERSHIP THEN Raise("KeyError")
        ELSE LET team_pct == MEMBERSHIP[membership_level].team_pct
                 bonus_amount == min(bv_base * team_pct, daily_cap[membership_level])
             IN  Return([bv_base |-> bv_base,
                         bonus_pct |-> team_pct,
                         bonus_amount |-> bonus_amount])

\* The private line taken as the base, without the min.
calculate_team_bonus_private_base(bv_private, bv_public, membership_level) ==
    LET bv_base == bv_private
    IN  IF membership_level \notin DOMAIN MEMBERSHIP THEN Raise("KeyError")
        ELSE LET team_pct == MEMBERSHIP[membership_level].team_pct
                 bonus_amount == bv_base * team_pct
             IN  Return([bv_base |-> bv_base,
                         bonus_pct |-> team_pct,
                         bonus_amount |-> bonus_amount])

calculate_team_bonus(bv_private, bv_public, membership_level) ==
    LET bv_base == min(bv_private, bv_public)
    IN  IF membership_level \notin DOMAIN MEMBERSHIP THEN Raise("KeyError")
        ELSE LET team_pct == MEMBERSHIP[membership_level].team_pct
                 bonus_amount == bv_base * team_pct
             IN  Return([bv_base |-> bv_base,
                         bonus_pct |-> team_pct,
                         bonus_amount |-> bonus_amount])

-----------------------------------------------------------------------------
(* calculate_elite_bonus: one bonus per generation of                      *)
(* downline_data[:max_depth], and their sum.                               *)

RECURSIVE elite_loop(_, _, _)
elite_loop(gens, i, bonuses) ==
    IF i > Len(gens) THEN bonuses
    ELSE LET count == gens[i][1]
             bv == gens[i][2]
             gen_bonus == count * bv * rate
         IN  elite_loop(gens, i + 1, Append(bonuses, gen_bonus))

\* Every generation of the downline paid, whatever the depth.
calculate_elite_bonus_no_depth(downline_data, membership_level) ==
    IF membership_level \notin DOMAIN MEMBERSHIP THEN Raise("KeyError")
    ELSE LET bonuses == elite_loop(downline_data, 1, <<>>)
             total_elite == sum(bonuses)
         IN  Return([generational_bonuses |-> bonuses,
                     total_elite_bonus |-> total_elite])

\* The depth held to at least 1, as the generation count of the panel is.
calculate_elite_bonus_min_one(downline_data, membership_level) ==
    IF membership_level \notin DOMAIN MEMBERSHIP THEN Raise("KeyError")
    ELSE LET max_depth == IF MEMBERSHIP[membership_level].elite_depth < 1 THEN 1
                          ELSE MEMBERSHIP[membership_level].elite_depth
             bonuses == elite_loop(slice_to(downline_data, max_depth), 1, <<>>)
             total_elite == sum(bonuses)
         IN  Return([generational_bonuses |-> bonuses,
                     total_elite_bonus |-> total_elite])

\* The lookup by dict.get with the first tier as the default.
calculate_elite_bonus_default_tier(downline_data, membership_level) ==
    LET level == IF membership_level \in DOMAIN MEMBERSHIP THEN membership_level
                 ELSE "Pre-Junior"
        max_depth == MEMBERSHIP[level].elite_depth
        bonuses == elite_loop(slice_to(downline_data, max_depth), 1, <<>>)
        total_elite == sum(bonuses)
    IN  Return([generational_bonuses |-> bonuses,
                total_elite_bonus |-> total_elite])

calculate_elite_bonus(downline_data, membership_level) ==
    IF membership_level \notin DOMAIN MEMBERSHIP THEN Raise("KeyError")
    ELSE LET max_depth == MEMBERSHIP[membership_level].elite_depth
             bonuses == elite_loop(slice_to(downline_data, max_depth), 1, <<>>)
             total_elite == sum(bonuses)
         IN  Return([generational_bonuses |-> bonuses,
                     total_elite_bonus |-> total_elite])

-----------------------------------------------------------------------------
(* The graph of show_network_visualization: a networkx DiGraph, held as    *)
(* its set of nodes and its set of edges <<parent, child>>.  add_node and  *)
(* add_edge add to sets, and add_edge also adds an endpoint the graph does *)
(* not hold yet; "implicit" keeps the nodes that entered the graph that    *)
(* way.                                                                    *)

root == "Tu"

label_of(gen_idx, j) == "G" \o ToString(gen_idx) \o "-" \o ToString(j + 1)

\* The parent taken at the child's own position, without the modulo.
parent_of_no_modulo(downline_data, gen_idx, j) ==
    IF gen_idx = 1 THEN root ELSE label_of(gen_idx - 1, j)

\* The modulus taken from the child's own generation: index gen_idx - 1
\* of the Python list in place of gen_idx - 2.
parent_of_own_count(downline_data, gen_idx, j) ==
    IF gen_idx = 1 THEN root
    ELSE label_of(gen_idx - 1, py_mod(j, downline_data[gen_idx][1]))

\* The parent of position j of generation gen_idx (Python indexes
\* downline_data from 0, hence gen_idx - 2 there and gen_idx - 1 here).
parent_of(downline_data, gen_idx, j) ==
    IF gen_idx = 1 THEN root
    ELSE label_of(gen_idx - 1, py_mod(j, downline_data[gen_idx - 1][1]))

new_graph == [nodes |-> {root}, edges |-> {}, implicit |-> {}]

\* The inner loop, for j in range(cnt): add_node(label), then
\* add_edge(parent, label).  When the edge of position j is added the graph
\* holds the nodes it held before the loop and the labels of positions
\* 0..j; a parent that is none of them enters the graph by add_edge.
add_generation(graph, downline_data, gen_idx) ==
    LET cnt == downline_data[gen_idx][1]
        js == 0..(cnt - 1)
        label(j) == label_of(gen_idx, j)
        parent(j) == parent_of(downline_data, gen_idx, j)
        held(j) == graph.nodes \cup {label(i) : i \in 0..j}
    IN  [nodes |-> graph.nodes \cup {label(j) : j \in js} \cup {parent(j) : j \in js},
         edges |-> graph.edges \cup {<<parent(j), label(j)>> : j \in js},
         implicit |-> graph.implicit
                        \cup {parent(j) : j \in {i \in js : parent(i) \notin held(i)}}]

\* The outer loop from generation gen_idx on.  The parent label is computed
\* only inside the inner loop, so the modulo is taken only when the
\* generation has a position; it raises at position 0, before any node of
\* the generation is added.
RECURSIVE build_graph_loop(_, _, _)
build_graph_loop(graph, downline_data, gen_idx) ==
    IF gen_idx > Len(downline_data) THEN [exc |-> "none", graph |-> graph]
    ELSE IF /\ downline_data[gen_idx][1] > 0
            /\ gen_idx # 1
            /\ downline_data[gen_idx - 1][1] = 0
         THEN [exc |-> "ZeroDivisionError", graph |-> graph]
         ELSE build_graph_loop(add_generation(graph, downline_data, gen_idx),
                               downline_data, gen_idx + 1)

build_graph(downline_data) == build_graph_loop(new_graph, downline_data, 1)

-----------------------------------------------------------------------------
(* show_monetary_summary: the team bonus, the elite total (taken as 0      *)
(* without a call of the calculator when the tier has no elite depth) and  *)
(* their sum.                                                              *)

\* The total taken over every generation of the downline.
elite_total_for_summary_all_generations(membership, downline_data) ==
    sum(elite_loop(downline_data, 1, <<>>))

\* The elite total of the summary: line 357.
elite_total_for_summary(membership, downline_data) ==
    IF MEMBERSHIP[membership].elite_depth > 0
    THEN calculate_elite_bonus(downline_data, membership).ret.total_elite_bonus
    ELSE 0

show_monetary_summary(bv_private, bv_public, membership, downline_data) ==
    LET team == calculate_team_bonus(bv_private, bv_public, membership)
    IN  IF team.exc # "none" THEN Raise(team.exc)
        ELSE LET team_result == team.ret
                 elite_result ==
                     [total_elite_bonus |->
                          elite_total_for_summary(membership, downline_data)]
                 total_earnings ==
                     team_result.bonus_amount + elite_result.total_elite_bonus
             IN  Return([team_result |-> team_result,
                         elite_result |-> elite_result,
                         total_earnings |-> total_earnings])

-----------------------------------------------------------------------------
(* The inputs the calls are tried on.                                      *)

\* The catalog's names, and two names it does not hold.
TierNames == DOMAIN MEMBERSHIP_dict \cup {"Platinum", "senior"}

\* BV figures of the two lines: the example values of simulate_team_bonus,
\* zero, and one negative figure.
BVValues == {-100, 0, 300, 500, 1200, 1500, 2500, 3000}

\* BV per affiliate.
BVPerPerson == {-100, 0, 200}

\* (affiliates, BV per affiliate) of one generation.
GenRecords ==
    {<<c, 200>> : c \in -1..MaxCount} \cup {<<2, -100>>, <<1, 0>>}

RECURSIVE SeqsUpTo(_, _)
SeqsUpTo(S, n) ==
    IF n = 0 THEN {<<>>}
    ELSE LET shorter == SeqsUpTo(S, n - 1)
         IN  shorter \cup {Append(q, x) : q \in {r \in shorter : Len(r) = n - 1}, x \in S}

\* (first generation, later generations): the defaults, the two optimised
\* layouts, and three further layouts.
GenLayouts ==
    {<<first_gen_default, other_gen_default>>, <<7, 5>>, <<6, 4>>,
     <<2, 2>>, <<0, 2>>, <<-1, 4>>}

Downlines ==
    SeqsUpTo(GenRecords, MaxCustomLen)
    \cup SeqsUpTo({<<0, 200>>, <<2, 200>>}, MaxGenCount)
    \cup {get_downline_counts(n, bv, l[1], l[2]) :
            n \in 0..MaxGenCount, bv \in {0, 200}, l \in GenLayouts}

-----------------------------------------------------------------------------
(* The state machine.  The functions are pure, so a behaviour is one call: *)
(* Init draws the function and its arguments, and the function's action    *)
(* runs it to its return or its exception.  No function assigns to         *)
(* MEMBERSHIP.                                                             *)

\* A caller of get_downline_counts passes the two counts or leaves them
\* out; left out, they are the defaults of the signature.
GeneratorArgs ==
    {[gen_count |-> n, bv_per_person |-> bv, omitted |-> FALSE,
      first_gen_default |-> l[1], other_gen_default |-> l[2]] :
        n \in -1..MaxGenCount, bv \in BVPerPerson, l \in GenLayouts}
    \cup
    {[gen_count |-> n, bv_per_person |-> bv, omitted |-> TRUE,
      first_gen_default |-> first_gen_default,
      other_gen_default |-> other_gen_default] :
        n \in -1..MaxGenCount, bv \in BVPerPerson}

TeamArgs ==
    [bv_private : BVValues, bv_public : BVValues, membership_level : TierNames]

EliteArgs == [downline_data : Downlines, membership_level : TierNames]

GraphArgs == [downline_data : Downlines]

\* The two lines of the summary: the example values of two tiers, and zero.
SummaryArgs ==
    {[bv_private |-> b[1], bv_public |-> b[2], membership |-> m, downline_data |-> d] :
        b \in {<<0, 0>>, <<1500, 1200>>, <<3000, 2500>>},
        m \in TierNames, d \in Downlines}

\* A browser session before the first run of the script: session_state is
\* empty, the selectbox shows the first option, the BV input its default.
no_run ==
    [loaded |-> FALSE, ui |-> [kind |-> "none", i |-> 0, v |-> 0],
     membership |-> "Pre-Junior", bv_default |-> 200,
     gen_count |-> 0, custom_counts |-> FALSE, downline_data |-> <<>>,
     elite_panel |-> <<>>, network |-> <<>>, summary |-> <<>>, exc |-> "none"]

fresh_session ==
    /\ session_state = <<>>
    /\ membership_selectbox = "Pre-Junior"
    /\ bv_default_input = 200
    /\ last_run = no_run
    /\ runs = 0

Init ==
    /\ MEMBERSHIP = MEMBERSHIP_dict
    /\ pc = "called"
    /\ exc = "none"
    /\ ret = NoResult
    /\ fresh_session
    /\ \/ op = "get_downline_counts" /\ args \in GeneratorArgs
       \/ op = "calculate_team_bonus" /\ args \in TeamArgs
       \/ op = "calculate_elite_bonus" /\ args \in EliteArgs
       \/ op = "build_graph" /\ args \in GraphArgs
       \/ op = "show_monetary_summary" /\ args \in SummaryArgs

Call_get_downline_counts ==
    /\ pc = "called"
    /\ op = "get_downline_counts"
    /\ pc' = "left"
    /\ exc' = "none"
    /\ ret' = get_downline_counts(args.gen_count, args.bv_per_person,
                                  args.first_gen_default, args.other_gen_default)
    /\ UNCHANGED <<MEMBERSHIP, op, args, uivars>>

Call_calculate_team_bonus ==
    /\ pc = "called"
    /\ op = "calculate_team_bonus"
    /\ LET r == calculate_team_bonus(args.bv_private, args.bv_public,
                                     args.membership_level)
       IN  /\ pc' = "left"
           /\ exc' = r.exc
           /\ ret' = r.ret
    /\ UNCHANGED <<MEMBERSHIP, op, args, uivars>>

\* A calculator that cuts the caller's list down to the depth in place.
Call_calculate_elite_bonus_truncating ==
    /\ pc = "called"
    /\ op = "calculate_elite_bonus"
    /\ LET r == calculate_elite_bonus(args.downline_data, args.membership_level)
       IN  /\ pc' = "left"
           /\ exc' = r.exc
           /\ ret' = r.ret
           /\ args' = IF r.exc = "none"
                      THEN [args EXCEPT !.downline_data =
                               slice_to(@, Len(r.ret.generational_bonuses))]
                      ELSE args
    /\ UNCHANGED <<MEMBERSHIP, op, uivars>>

Call_calculate_elite_bonus ==
    /\ pc = "called"
    /\ op = "calculate_elite_bonus"
    /\ LET r == calculate_elite_bonus(args.downline_data, args.membership_level)
       IN  /\ pc' = "left"
           /\ exc' = r.exc
           /\ ret' = r.ret
    /\ UNCHANGED <<MEMBERSHIP, op, args, uivars>>

\* The graph is a local of show_network_visualization: when the loops
\* raise, nothing of it is left.
Call_build_graph ==
    /\ pc = "called"
    /\ op = "build_graph"
    /\ LET r == build_graph(args.downline_data)
       IN  /\ pc' = "left"
           /\ exc' = r.exc
           /\ ret' = IF r.exc = "none" THEN r.graph ELSE NoResult
    /\ UNCHANGED <<MEMBERSHIP, op, args, uivars>>

Call_show_monetary_summary ==
    /\ pc = "called"
    /\ op = "show_monetary_summary"
    /\ LET r == show_monetary_summary(args.bv_private, args.bv_public,
                                      args.membership, args.downline_data)
       IN  /\ pc' = "left"
           /\ exc' = r.exc
           /\ ret' = r.ret
    /\ UNCHANGED <<MEMBERSHIP, op, args, uivars>>

Next ==
    \/ Call_get_downline_counts
    \/ Call_calculate_team_bonus
    \/ Call_calculate_elite_bonus
    \/ Call_build_graph
    \/ Call_show_monetary_summary

Spec == Init /\ [][Next]_vars

-----------------------------------------------------------------------------
(* The Streamlit application.  Every interaction of the user with a widget *)
(* reruns main from the top; st.session_state lives across the runs.  A    *)
(* widget called with value=session_state[k], whose return is stored back  *)
(* under k, returns what the user has just set it to, and otherwise what   *)
(* session_state[k] holds.  One interaction starts one run; it is given to *)
(* the run as ui = [kind, i, v].                                           *)

\* Longest session: the number of interactions, the opening of the page
\* included, that are followed.
MaxRuns == 6

\* Largest generation count the user enters (the widget allows up to 6).
MaxUIGen == 3

\* Values the user gives to the widgets.
UIGenCounts == 1..MaxUIGen

UICounts == {0, 2}

UIBVDefaults == {100, 200}

no_ui == [kind |-> "rerun", i |-> 0, v |-> 0]

\* k in session_state, and session_state[k] = v.
Has(ss, k) == k \in DOMAIN ss

Put(ss, k, v) == [x \in DOMAIN ss \cup {k} |-> IF x = k THEN v ELSE ss[x]]

SetDefault(ss, k, v) == IF Has(ss, k) THEN ss ELSE Put(ss, k, v)

count_key(i) == "count_" \o ToString(i)

bv_key(i) == "bv_" \o ToString(i)

\* The value of an expression that is computed once and used many times:
\* TheOnly({F(x) : x \in {e}}) is F(e).
TheOnly(S) == CHOOSE x \in S : TRUE

\* One generation of the customised branch: the setdefaults of its two
\* keys, its two widgets and what they store (the two layouts, columns up
\* to 3 generations and rows above, store and append the same).
custom_generation(ss, i, bv_default, ui) ==
    LET ss2 == SetDefault(SetDefault(ss, count_key(i), IF i = 1 THEN 5 ELSE 3),
                          bv_key(i), bv_default)
        count == IF ui.kind = "count" /\ ui.i = i THEN ui.v
                 ELSE ss2[count_key(i)]
        bv == ss2[bv_key(i)]
    IN  [ss |-> Put(Put(ss2, count_key(i), count), bv_key(i), bv),
         gen |-> <<count, bv>>]

\* The loop of the customised branch from generation i on.
RECURSIVE custom_loop(_, _, _, _, _, _)
custom_loop(ss, downline_data, i, gen_count, bv_default, ui) ==
    IF i > gen_count THEN [ss |-> ss, downline_data |-> downline_data]
    ELSE TheOnly({custom_loop(g.ss, Append(downline_data, g.gen),
                              i + 1, gen_count, bv_default, ui) :
                    g \in {custom_generation(ss, i, bv_default, ui)}})

\* The data of the Optimize button for a membership.
optimized_data_of(membership, gen_count, bv_default) ==
    IF membership = "Master" THEN get_downline_counts(6, bv_default, 7, 5)
    ELSE IF membership = "Senior" THEN get_downline_counts(3, bv_default, 6, 4)
    ELSE get_downline_counts(gen_count, bv_default,
                             first_gen_default, other_gen_default)

\* The branch without customisation.
default_branch(ss, membership, gen_count, bv_default, ui) ==
    LET ss1 == SetDefault(ss, "optimized", FALSE)
    IN  IF ui.kind = "optimize"
        THEN [ss |-> Put(Put(ss1, "downline_data",
                             optimized_data_of(membership, gen_count, bv_default)),
                         "optimized", TRUE),
              downline_data |-> optimized_data_of(membership, gen_count, bv_default)]
        ELSE [ss |-> ss1,
              downline_data |->
                  IF ss1["optimized"] THEN ss1["downline_data"]
                  ELSE get_downline_counts(gen_count, bv_default,
                                           first_gen_default, other_gen_default)]

\* The initialisation of the session keys of the elite panel.
elite_session_init(ss, membership, bv_default) ==
    LET ss2 == SetDefault(SetDefault(ss, "gen_count",
                                     min(3, max(1, example_gen_counts[membership]))),
                          "custom_counts", FALSE)
    IN  SetDefault(ss2, "downline_data",
                   get_downline_counts(ss2["gen_count"], bv_default,
                                       first_gen_default, other_gen_default))

\* The number input of the generations and the checkbox.
elite_widgets(ss, ui) ==
    LET gen_count == IF ui.kind = "gen_count" THEN ui.v ELSE ss["gen_count"]
        custom_counts == IF ui.kind = "custom_counts" THEN ~ss["custom_counts"]
                         ELSE ss["custom_counts"]
    IN  [ss |-> Put(Put(ss, "gen_count", gen_count), "custom_counts", custom_counts),
         gen_count |-> gen_count, custom_counts |-> custom_counts]

\* The branch taken, with the inputs w of the widgets.
elite_branch(w, membership, bv_default, ui) ==
    IF w.custom_counts
    THEN custom_loop(w.ss, <<>>, 1, w.gen_count, bv_default, ui)
    ELSE default_branch(w.ss, membership, w.gen_count, bv_default, ui)

\* The downline of the branch is stored, shown in the panel with its elite
\* result, and returned.
elite_store_and_show(w, branch, membership) ==
    [ss |-> Put(branch.ss, "downline_data", branch.downline_data),
     downline_data |-> branch.downline_data,
     gen_count |-> w.gen_count,
     custom_counts |-> w.custom_counts,
     elite_panel |->
        IF example_gen_counts[membership] > 0
        THEN <<[downline_data |-> branch.downline_data,
                elite_result |->
                    calculate_elite_bonus(branch.downline_data, membership).ret]>>
        ELSE <<>>]

\* simulate_elite_bonus(membership, bv_default): the session_state it
\* leaves, the (downline_data, gen_count) it returns, and the elite result
\* of its panel with the downline it was computed from.
simulate_elite_bonus(ss, membership, bv_default, ui) ==
    TheOnly({TheOnly({elite_store_and_show(w, branch, membership) :
                        branch \in {elite_branch(w, membership, bv_default, ui)}}) :
               w \in {elite_widgets(s, ui) :
                        s \in {elite_session_init(ss, membership, bv_default)}}})

\* A downline generated again from the generation count for the network.
network_input_regenerated(elite) ==
    get_downline_counts(elite.gen_count, 200, first_gen_default, other_gen_default)

\* The downline main hands to show_network_visualization: line 815.
network_input(elite) == elite.downline_data

\* The downline main hands to show_monetary_summary: line 821.
summary_input(elite) == elite.downline_data

\* simulate_team_bonus(membership): the session_state it leaves and the two
\* lines it returns.  The user leaves the two inputs alone; the button
\* loads the example of the membership, and a number_input whose value
\* argument has changed under the same key either starts again from that
\* value or keeps what it held, as the version of Streamlit has it.
simulate_team_bonus(ss, membership, ui, keeps) ==
    LET ss3 == SetDefault(SetDefault(SetDefault(ss, "bv_private", 0),
                                     "bv_public", 0),
                          "example_loaded", FALSE)
        loads == ui.kind = "load_example"
        bv_private == IF loads /\ ~keeps THEN example_values[membership].private
                      ELSE ss3["bv_private"]
        bv_public == IF loads /\ ~keeps THEN example_values[membership].public
                     ELSE ss3["bv_public"]
    IN  [ss |-> Put(Put(Put(ss3, "example_loaded", loads \/ ss3["example_loaded"]),
                        "bv_private", bv_private),
                    "bv_public", bv_public),
         bv_private |-> bv_private, bv_public |-> bv_public]

\* What a run of main leaves behind.
run_record(membership, bv_default, ui, elite, network, summary, raised) ==
    [loaded |-> TRUE, ui |-> ui, membership |-> membership,
     bv_default |-> bv_default, gen_count |-> elite.gen_count,
     custom_counts |-> elite.custom_counts,
     downline_data |-> elite.downline_data,
     elite_panel |-> elite.elite_panel, network |-> network,
     summary |-> summary, exc |-> raised]

\* The tabs of main after the elite panel.  An exception of the graph
\* construction ends the run: what follows it is not computed, what was
\* stored in session_state before it stays.
main_tabs(elite, graph, membership, bv_default, ui, keeps) ==
    LET network == <<[downline_data |-> network_input(elite),
                      exc |-> graph.exc,
                      nodes |-> Cardinality(graph.graph.nodes)]>>
    IN  IF graph.exc # "none"
        THEN [ss |-> elite.ss,
              run |-> run_record(membership, bv_default, ui, elite, network,
                                 <<>>, graph.exc)]
        ELSE TheOnly({
               [ss |-> team.ss,
                run |-> run_record(membership, bv_default, ui, elite, network,
                          <<[downline_data |-> summary_input(elite),
                             result |-> show_monetary_summary(team.bv_private,
                                            team.bv_public, membership,
                                            summary_input(elite)).ret]>>,
                          "none")] :
               team \in {simulate_team_bonus(elite.ss, membership, ui, keeps)}})

\* main, from the return of setup_sidebar on.
main(ss, membership, bv_default, ui, keeps) ==
    TheOnly({TheOnly({main_tabs(elite, graph, membership, bv_default, ui, keeps) :
                        graph \in {build_graph(network_input(elite))}}) :
               elite \in {simulate_elite_bonus(ss, membership, bv_default, ui)}})

\* One run of the script: setup_sidebar has returned (membership,
\* bv_default), main runs on them.
RunMain(membership, bv_default, ui, keeps) ==
    /\ runs < MaxRuns
    /\ runs' = runs + 1
    /\ \E r \in {main(session_state, membership, bv_default, ui, keeps)} :
        /\ session_state' = r.ss
        /\ last_run' = r.run
    /\ UNCHANGED <<MEMBERSHIP, pc, callvars>>

\* The widgets of the elite panel that are disabled for a membership
\* without elite depth were enabled in the last run and are in this one.
PanelEnabled ==
    /\ last_run.loaded
    /\ last_run.membership = membership_selectbox
    /\ example_gen_counts[last_run.membership] > 0

InitUI ==
    /\ MEMBERSHIP = MEMBERSHIP_dict
    /\ pc = "session"
    /\ op = "main"
    /\ args = <<>>
    /\ exc = "none"
    /\ ret = NoResult
    /\ fresh_session

\* The page is opened.
Run_load ==
    /\ pc = "session"
    /\ ~last_run.loaded
    /\ RunMain(membership_selectbox, bv_default_input, no_ui, FALSE)
    /\ UNCHANGED <<membership_selectbox, bv_default_input>>

\* A rerun that changes no input of main (an option of the graph, say).
Run_rerun ==
    /\ pc = "session"
    /\ last_run.loaded
    /\ RunMain(membership_selectbox, bv_default_input, no_ui, FALSE)
    /\ UNCHANGED <<membership_selectbox, bv_default_input>>

\* The user picks a membership in the selectbox, which the last run showed.
Run_selectbox ==
    /\ pc = "session"
    /\ last_run.loaded
    /\ last_run.ui.kind # "select_button"
    /\ \E m \in DOMAIN MEMBERSHIP :
        /\ m # membership_selectbox
        /\ membership_selectbox' = m
        /\ RunMain(m, bv_default_input, [kind |-> "selectbox", i |-> 0, v |-> 0], FALSE)
    /\ UNCHANGED bv_default_input

\* The user clicks the button of a membership card: the membership is the
\* card's for this run, and the selectbox, not shown in it, starts again
\* from its first option.
Run_select_button ==
    /\ pc = "session"
    /\ last_run.loaded
    /\ \E m \in DOMAIN MEMBERSHIP :
        /\ membership_selectbox' = "Pre-Junior"
        /\ RunMain(m, bv_default_input, [kind |-> "select_button", i |-> 0, v |-> 0], FALSE)
    /\ UNCHANGED bv_default_input

\* The user changes the BV per affiliate of the sidebar.
Run_bv_default ==
    /\ pc = "session"
    /\ last_run.loaded
    /\ \E v \in UIBVDefaults :
        /\ v # bv_default_input
        /\ bv_default_input' = v
        /\ RunMain(membership_selectbox, v, [kind |-> "bv_default", i |-> 0, v |-> v], FALSE)
    /\ UNCHANGED membership_selectbox

\* The user changes the number of generations.
Run_gen_count ==
    /\ pc = "session"
    /\ PanelEnabled
    /\ \E n \in UIGenCounts :
        /\ n # last_run.gen_count
        /\ RunMain(membership_selectbox, bv_default_input,
                   [kind |-> "gen_count", i |-> 0, v |-> n], FALSE)
    /\ UNCHANGED <<membership_selectbox, bv_default_input>>

\* The user ticks or unticks the customisation checkbox.
Run_custom_counts ==
    /\ pc = "session"
    /\ PanelEnabled
    /\ RunMain(membership_selectbox, bv_default_input,
               [kind |-> "custom_counts", i |-> 0, v |-> 0], FALSE)
    /\ UNCHANGED <<membership_selectbox, bv_default_input>>

\* The user changes the affiliates of a generation the last run showed.
Run_count ==
    /\ pc = "session"
    /\ last_run.loaded
    /\ last_run.custom_counts
    /\ \E i \in 1..last_run.gen_count, v \in UICounts :
        RunMain(membership_selectbox, bv_default_input,
                [kind |-> "count", i |-> i, v |-> v], FALSE)
    /\ UNCHANGED <<membership_selectbox, bv_default_input>>

\* The user clicks the Optimize button, which the last run showed.
Run_optimize ==
    /\ pc = "session"
    /\ PanelEnabled
    /\ ~last_run.custom_counts
    /\ RunMain(membership_selectbox, bv_default_input,
               [kind |-> "optimize", i |-> 0, v |-> 0], FALSE)
    /\ UNCHANGED <<membership_selectbox, bv_default_input>>

\* The user clicks the button that loads the example of the team panel,
\* which the last run showed.
Run_load_example ==
    /\ pc = "session"
    /\ last_run.loaded
    /\ last_run.exc = "none"
    /\ \E keeps \in BOOLEAN :
        RunMain(membership_selectbox, bv_default_input,
                [kind |-> "load_example", i |-> 0, v |-> 0], keeps)
    /\ UNCHANGED <<membership_selectbox, bv_default_input>>

NextUI ==
    \/ Run_load
    \/ Run_rerun
    \/ Run_selectbox
    \/ Run_select_button
    \/ Run_bv_default
    \/ Run_gen_count
    \/ Run_custom_counts
    \/ Run_count
    \/ Run_optimize
    \/ Run_load_example

SpecUI == InitUI /\ [][NextUI]_vars

\* The whole program: a call of one of its functions, or a session of the
\* application.
SpecAll == (Init \/ InitUI) /\ [][Next \/ NextUI]_vars

\* The call of function f has returned or raised.
Left(f) == pc = "left" /\ op = f

-----------------------------------------------------------------------------
(* Vocabulary of the properties.                                           *)

\* The sum of a sequence, from its head.
RECURSIVE Total(_)
Total(xs) == IF xs = <<>> THEN 0 ELSE Head(xs) + Total(Tail(xs))

\* The affiliates of all generations together.
RECURSIVE SumCounts(_)
SumCounts(d) == IF d = <<>> THEN 0 ELSE Head(d)[1] + SumCounts(Tail(d))

Smaller(a, b) == IF a <= b THEN a ELSE b

\* A downline of the data model: no negative affiliate count.
ValidCounts(d) == \A g \in 1..Len(d) : d[g][1] >= 0

\* Some generation has affiliates while the one before it has none.
EmptyBeforeNonEmpty(d) ==
    \E g \in 2..Len(d) : d[g][1] > 0 /\ d[g - 1][1] = 0

\* The label "G{g}-{p}" of the p-th node (from 1) of generation g.
NodeLabel(g, p) == "G" \o ToString(g) \o "-" \o ToString(p)

InDegree(G, n) == Cardinality({e \in G.edges : e[2] = n})

\* The node reached from n by following incoming edges k times (a node
\* without exactly one incoming edge stays where it is).
RECURSIVE Ancestor(_, _, _)
Ancestor(G, n, k) ==
    IF k = 0 \/ InDegree(G, n) # 1 THEN n
    ELSE Ancestor(G, (CHOOSE e \in G.edges : e[2] = n)[1], k - 1)

\* Every edge leaves the root for generation 1 or generation g-1 for
\* generation g, between positions the downline has.
EdgesDescendOneGeneration(G, d) ==
    \A e \in G.edges :
        \E g \in 1..Len(d) :
            /\ \E p \in 1..d[g][1] : e[2] = NodeLabel(g, p)
            /\ IF g = 1 THEN e[1] = "Tu"
               ELSE \E q \in 1..d[g - 1][1] : e[1] = NodeLabel(g - 1, q)

\* What C4 says of the graph G built from downline d.
IsNetworkOf(G, d) ==
    /\ "Tu" \in G.nodes
    /\ Cardinality(G.nodes \ {"Tu"}) = SumCounts(d)
    /\ Cardinality(G.edges) = SumCounts(d)
    /\ InDegree(G, "Tu") = 0
    /\ \A n \in G.nodes \ {"Tu"} : InDegree(G, n) = 1
    /\ EdgesDescendOneGeneration(G, d)
    /\ \A n \in G.nodes : Ancestor(G, n, Len(d)) = "Tu"

-----------------------------------------------------------------------------
C2_EliteBonusPerGeneration ==
    (Left("calculate_elite_bonus") /\ args.membership_level \in DOMAIN MEMBERSHIP)
    => LET d == args.downline_data
           depth == MEMBERSHIP[args.membership_level].elite_depth
       IN  /\ exc = "none"
           /\ Len(ret.generational_bonuses) = Smaller(Len(d), depth)
           /\ \A k \in 1..Len(ret.generational_bonuses) :
                  ret.generational_bonuses[k] = d[k][1] * d[k][2] * 4
           /\ ret.total_elite_bonus = Total(ret.generational_bonuses)
           /\ ( /\ args.membership_level = "Senior"
                /\ d = <<<<5, 200>>, <<3, 200>>, <<3, 200>>>> )
              => /\ ret.generational_bonuses = <<4000, 2400, 2400>>
                 /\ ret.total_elite_bonus = 8800

\* Scenario B has been computed.
C2_Witness ==
    /\ Left("calculate_elite_bonus")
    /\ args.membership_level = "Senior"
    /\ args.downline_data = <<<<5, 200>>, <<3, 200>>, <<3, 200>>>>
    /\ exc = "none"
    /\ ret.total_elite_bonus = 8800

(* C3: for every tier whose elite_depth is 0 (Pre-Junior, Junior) and any  *)
(* downline, calculate_elite_bonus returns an empty per-generation list    *)
(* and total 0.                                                            *)
C3_NoEliteAtDepthZero ==
    ( /\ Left("calculate_elite_bonus")
      /\ args.membership_level \in DOMAIN MEMBERSHIP
      /\ \/ MEMBERSHIP[args.membership_level].elite_depth = 0
         \/ args.membership_level \in {"Pre-Junior", "Junior"} )
    => /\ exc = "none"
       /\ ret.generational_bonuses = <<>>
       /\ ret.total_elite_bonus = 0

\* A depth-0 tier has been paid nothing on a downline whose first
\* generation carries volume.
C3_Witness ==
    /\ Left("calculate_elite_bonus")
    /\ args.membership_level = "Pre-Junior"
    /\ Len(args.downline_data) >= 1
    /\ args.downline_data[1] = <<5, 200>>
    /\ exc = "none"
    /\ ret = [generational_bonuses |-> <<>>, total_elite_bonus |-> 0]

(* C4 as stated: for every downline, the graph construction of             *)
(* show_network_visualization produces a graph with exactly                *)
(* sum(affiliate_count) non-root nodes and as many edges, every non-root   *)
(* node of in-degree 1, every edge from the root or generation g-1 to      *)
(* generation g.                                                           *)
C4_Original_EveryDownline ==
    (Left("build_graph") /\ ValidCounts(args.downline_data))
    => (exc = "none" /\ IsNetworkOf(ret, args.downline_data))

(* C4 as amended: the same, for every downline in which no generation with *)
(* affiliates follows a generation without any; on the other downlines the *)
(* construction completes with no graph at all.                            *)
C4_NetworkIsTree ==
    (Left("build_graph") /\ ValidCounts(args.downline_data))
    => /\ ~EmptyBeforeNonEmpty(args.downline_data)
          => (exc = "none" /\ IsNetworkOf(ret, args.downline_data))
       /\ EmptyBeforeNonEmpty(args.downline_data)
          => (exc # "none" /\ ret = NoResult)

\* A graph of three generations, the last larger than the one before it,
\* has been built.
C4_Witness ==
    /\ Left("build_graph")
    /\ ValidCounts(args.downline_data)
    /\ exc = "none"
    /\ Len(args.downline_data) = 3
    /\ args.downline_data[2][1] = 2
    /\ args.downline_data[3][1] = 3
    /\ Cardinality(ret.edges) = SumCounts(args.downline_data)

(* C5: the node at generation g and position j (from 0) is labelled        *)
(* "G{g}-{j+1}"; its one parent is the root when g = 1 and otherwise the   *)
(* node "G{g-1}-{(j mod count[g-1]) + 1}", a node of generation g-1 that   *)
(* the graph already holds when the edge is added; counts [2, 2] give the  *)
(* edges root->G1-1, root->G1-2, G1-1->G2-1, G1-2->G2-2 and no others.     *)
C5_LabelsAndParents ==
    (Left("build_graph") /\ ValidCounts(args.downline_data) /\ exc = "none")
    => LET d == args.downline_data
       IN  /\ \A g \in 1..Len(d) : \A j \in 0..(d[g][1] - 1) :
                  LET expected ==
                          IF g = 1 THEN "Tu"
                          ELSE NodeLabel(g - 1, (j % d[g - 1][1]) + 1)
                  IN  /\ NodeLabel(g, j + 1) \in ret.nodes
                      /\ {e[1] : e \in {f \in ret.edges : f[2] = NodeLabel(g, j + 1)}}
                             = {expected}
                      /\ expected \in ret.nodes
                      /\ g > 1 => (j % d[g - 1][1]) + 1 \in 1..d[g - 1][1]
           /\ ret.implicit = {}
           /\ (Len(d) = 2 /\ d[1][1] = 2 /\ d[2][1] = 2)
              => /\ ret.nodes = {"Tu", "G1-1", "G1-2", "G2-1", "G2-2"}
                 /\ ret.edges = {<<"Tu", "G1-1">>, <<"Tu", "G1-2">>,
                                 <<"G1-1", "G2-1">>, <<"G1-2", "G2-2">>}

\* Scenario E has been built.
C5_Witness ==
    /\ Left("build_graph")
    /\ exc = "none"
    /\ Len(args.downline_data) = 2
    /\ args.downline_data[1][1] = 2
    /\ args.downline_data[2][1] = 2
    /\ <<"G1-2", "G2-2">> \in ret.edges

(* C6: when some generation g >= 2 has affiliates while generation g-1 has *)
(* none, the construction fails fast with InvalidTopologyError: it does    *)
(* not crash on the modulo by zero, and it produces no orphan node and no  *)
(* partly built network.                                                   *)
C6_InvalidTopologyError ==
    ( /\ Left("build_graph")
      /\ ValidCounts(args.downline_data)
      /\ EmptyBeforeNonEmpty(args.downline_data) )
    => (exc = "InvalidTopologyError" /\ ret = NoResult)

(* C7: for every n >= 0, get_downline_counts(n, bv, first, other) returns  *)
(* a sequence of length n (empty for n = 0) whose element 0 has first      *)
(* affiliates (5 when left out), whose later elements have other           *)
(* affiliates (3 when left out), all with bv per affiliate;                *)
(* get_downline_counts(3, 200) is [(5,200), (3,200), (3,200)].             *)
C7_GeneratedDownline ==
    (Left("get_downline_counts") /\ args.gen_count >= 0)
    => /\ exc = "none"
       /\ Len(ret) = args.gen_count
       /\ args.gen_count = 0 => ret = <<>>
       /\ \A i \in 1..Len(ret) :
              /\ ret[i][1] = IF i = 1 THEN args.first_gen_default
                             ELSE args.other_gen_default
              /\ ret[i][2] = args.bv_per_person
       /\ args.omitted
          => \A i \in 1..Len(ret) : ret[i][1] = IF i = 1 THEN 5 ELSE 3
       /\ (args.omitted /\ args.gen_count = 3 /\ args.bv_per_person = 200)
          => ret = <<<<5, 200>>, <<3, 200>>, <<3, 200>>>>

\* Scenario D has been generated.
C7_Witness ==
    /\ Left("get_downline_counts")
    /\ args.omitted
    /\ args.gen_count = 3
    /\ args.bv_per_person = 200
    /\ ret = <<<<5, 200>>, <<3, 200>>, <<3, 200>>>>

(* C8: the catalog holds exactly Pre-Junior 0.05 / 0, Junior 0.07 / 0,     *)
(* Senior 0.08 / 3 and Master 0.10 / 6, and every tier name used elsewhere *)
(* (the example tables, the branches of the Optimize button, the table of  *)
(* generations per tier) is in the catalog with the same elite depth.      *)
C8_CatalogValues ==
    /\ DOMAIN MEMBERSHIP = {"Pre-Junior", "Junior", "Senior", "Master"}
    /\ MEMBERSHIP["Pre-Junior"].team_pct = 5 /\ MEMBERSHIP["Pre-Junior"].elite_depth = 0
    /\ MEMBERSHIP["Junior"].team_pct = 7 /\ MEMBERSHIP["Junior"].elite_depth = 0
    /\ MEMBERSHIP["Senior"].team_pct = 8 /\ MEMBERSHIP["Senior"].elite_depth = 3
    /\ MEMBERSHIP["Master"].team_pct = 10 /\ MEMBERSHIP["Master"].elite_depth = 6
    /\ \A m \in DOMAIN example_gen_counts :
           m \in DOMAIN MEMBERSHIP /\ example_gen_counts[m] = MEMBERSHIP[m].elite_depth
    /\ \A m \in DOMAIN membership_table :
           m \in DOMAIN MEMBERSHIP /\ membership_table[m] = MEMBERSHIP[m].elite_depth
    /\ \A m \in DOMAIN optimize_branches :
           m \in DOMAIN MEMBERSHIP /\ optimize_branches[m] = MEMBERSHIP[m].elite_depth
    /\ DOMAIN example_values \subseteq DOMAIN MEMBERSHIP

\* The catalog's depth of Senior has been used on a downline deeper than
\* it: three generations paid out of more.
C8_Witness ==
    /\ Left("calculate_elite_bonus")
    /\ args.membership_level = "Senior"
    /\ Len(args.downline_data) > example_gen_counts["Senior"]
    /\ exc = "none"
    /\ Len(ret.generational_bonuses) = 3

(* C9: calculate_team_bonus is symmetric in its two BV arguments: for      *)
(* every tier and all a, b, the call on (a, b) and the call on (b, a)      *)
(* return the same bv_base, rate and amount.                               *)
C9_TeamBonusSymmetric ==
    Left("calculate_team_bonus")
    => LET swapped == calculate_team_bonus(args.bv_public, args.bv_private,
                                           args.membership_level)
       IN  swapped.exc = exc /\ swapped.ret = ret

\* A call whose private line is the larger one has returned the public
\* line as its base.
C9_Witness ==
    /\ Left("calculate_team_bonus")
    /\ exc = "none"
    /\ args.bv_private > args.bv_public
    /\ args.bv_public > 0
    /\ ret.bv_base = args.bv_public

C11_NegativeBVRejected ==
    ( /\ Left("calculate_team_bonus")
      /\ args.bv_private < 0 \/ args.bv_public < 0 )
    => (exc = "InvalidParameterError" /\ ret = NoResult)

(* C12: calculate_elite_bonus called with a downline holding a generation  *)
(* with a negative affiliate count or a negative BV per affiliate fails    *)
(* with InvalidParameterError and returns no list and no total.            *)
C12_NegativeDownlineRejected ==
    ( /\ Left("calculate_elite_bonus")
      /\ \E g \in 1..Len(args.downline_data) :
             args.downline_data[g][1] < 0 \/ args.downline_data[g][2] < 0 )
    => (exc = "InvalidParameterError" /\ ret = NoResult)

(* C13: get_downline_counts called with a negative generation count, a     *)
(* negative first or later count, or a negative BV per affiliate fails     *)
(* with InvalidParameterError instead of returning a sequence; a negative  *)
(* generation count does not yield an empty downline.                      *)
C13_NegativeGeneratorArgsRejected ==
    ( /\ Left("get_downline_counts")
      /\ \/ args.gen_count < 0
         \/ args.first_gen_default < 0
         \/ args.other_gen_default < 0
         \/ args.bv_per_person < 0 )
    => (exc = "InvalidParameterError" /\ ret = NoResult)

(* C14: after any sequence of runs of the application, the downline that   *)
(* simulate_elite_bonus returns in a run has as many generations as the    *)
(* generation count it returns in that run.                                *)
C14_DownlineLengthIsGenCount ==
    last_run.loaded => Len(last_run.downline_data) = last_run.gen_count

(* C15: in every run of main, the downline handed to the network graph is  *)
(* the downline the run's elite panel computed its result from and the one *)
(* the monetary summary computed its elite total from; the results shown   *)
(* are the calculator's for that downline, and a graph that was built has  *)
(* one node per affiliate of it besides the root.                          *)
C15_SameTopology ==
    last_run.loaded =>
        /\ Len(last_run.network) = 1
        /\ \A p \in 1..Len(last_run.elite_panel) :
            /\ last_run.elite_panel[p].downline_data
                   = last_run.network[1].downline_data
            /\ last_run.elite_panel[p].elite_result
                   = calculate_elite_bonus(last_run.network[1].downline_data,
                                           last_run.membership).ret
        /\ \A q \in 1..Len(last_run.summary) :
            /\ last_run.summary[q].downline_data
                   = last_run.network[1].downline_data
            /\ last_run.summary[q].result.elite_result.total_elite_bonus
                   = calculate_elite_bonus(last_run.network[1].downline_data,
                                           last_run.membership).ret.total_elite_bonus
        /\ last_run.network[1].exc = "none"
               => last_run.network[1].nodes
                      = 1 + SumCounts(last_run.network[1].downline_data)

\* A run after earlier runs, with a downline that is not the default one,
\* whose panel, network and summary are all shown.
C15_Witness ==
    /\ last_run.loaded
    /\ runs >= 3
    /\ last_run.membership = "Senior"
    /\ last_run.ui.kind = "optimize"
    /\ Len(last_run.elite_panel) = 1
    /\ Len(last_run.summary) = 1
    /\ last_run.elite_panel[1].elite_result.total_elite_bonus > 0
    /\ last_run.network[1].nodes > 1

(* C16: in every run of simulate_elite_bonus with the customisation off,   *)
(* the downline of the run is the configuration the panel reports: 5       *)
(* affiliates in the first generation, 3 in every later one, each with the *)
(* current bv_default, for the current generation count.                   *)
C16_DefaultDownlineIsReported ==
    (last_run.loaded /\ ~last_run.custom_counts)
    => last_run.downline_data
           = [g \in 1..last_run.gen_count |->
                  <<IF g = 1 THEN 5 ELSE 3, last_run.bv_default>>]

(* C17: no call of a function of the program and no run of the            *)
(* application changes the tier catalog, and no call changes its           *)
(* arguments (the downline handed to a calculator among them).             *)
C17_CatalogNeverMutated ==
    [][MEMBERSHIP' = MEMBERSHIP /\ args' = args]_vars

\* The elite calculator has returned on a downline longer than the depth
\* of the tier; the catalog is the one of the source and the downline is
\* whole.
C17_Witness ==
    /\ Left("calculate_elite_bonus")
    /\ exc = "none"
    /\ Len(ret.generational_bonuses) < Len(args.downline_data)
    /\ MEMBERSHIP = MEMBERSHIP_dict

(* C18: for every tier of the catalog and every downline, the elite total  *)
(* show_monetary_summary uses is the total calculate_elite_bonus returns   *)
(* for that downline and tier, and total_earnings is the team bonus amount *)
(* plus that total.                                                        *)
C18_SummaryEliteTotal ==
    (Left("show_monetary_summary") /\ args.membership \in DOMAIN MEMBERSHIP)
    => /\ exc = "none"
       /\ ret.team_result
              = calculate_team_bonus(args.bv_private, args.bv_public,
                                     args.membership).ret
       /\ ret.elite_result.total_elite_bonus
              = calculate_elite_bonus(args.downline_data,
                                      args.membership).ret.total_elite_bonus
       /\ ret.total_earnings
              = ret.team_result.bonus_amount
                + calculate_elite_bonus(args.downline_data,
                                        args.membership).ret.total_elite_bonus

\* The summary of a tier without elite depth on a downline that is not
\* empty, with a team bonus: the calculator is bypassed.
C18_Witness ==
    /\ Left("show_monetary_summary")
    /\ exc = "none"
    /\ args.membership \in DOMAIN MEMBERSHIP
    /\ MEMBERSHIP[args.membership].elite_depth = 0
    /\ SumCounts(args.downline_data) > 0
    /\ ret.team_result.bonus_amount > 0
    /\ ret.total_earnings = ret.team_result.bonus_amount

=============================================================================
